---- MODULE Spec2Model ----
(***************************************************************************)
(* Fi MCP authentication sessions of the FiNIX backend.                    *)
(*                                                                         *)
(* The repository holds two versions of services/fiMcpService.js:          *)
(*   "userSessions"  backend/src/services/fiMcpService.js: one Map entry   *)
(*                   per user, carrying a status field;                    *)
(*   "userTokens"    unnamed/part_002: a pending entry under the key       *)
(*                   `${userId}_session` and a token entry under userId.   *)
(* The variable service says which of the two the process has loaded; it   *)
(* is chosen once, in Init.  The callers (the auth routes and              *)
(* GeminiService.executeFunctionCall) are the same for both.               *)
(*                                                                         *)
(* Time is counted in ticks of 5 minutes; Date.now() is now.  The code     *)
(* only ever compares a stored instant with Date.now(), so the time axis   *)
(* has its origin at the present: now stays put and a tick moves every     *)
(* stored instant one tick into the past.  An instant MaxTime ticks old    *)
(* is past every window of the code and is not aged further.               *)
(* A handler runs atomically up to its first await of a remote call; the   *)
(* continuation after the await is a separate action (the response).       *)
(***************************************************************************)
EXTENDS Integers, Sequences, FiniteSets, TLC

\* ---------------------------------------------------------------- bounds
MaxTime == 7
MaxInflight == 1
\* Function calls in one response of the model.
MaxBatch == 2
\* Remote calls of one user awaiting their response at the same time, in the
\* runs of overlapping requests.
MaxOverlap == 2

\* ------------------------------------------------------------- constants
\* One tick of the clock is 5 minutes; every time below is in ticks.
\* this.sessionExpiry = 30 * 60 * 1000 ms (userSessions version).
sessionExpiry == 6
\* 5 * 60 * 1000 ms, the passcode-entry window of the userTokens version.
passcodeWindow == 1
\* this.tokenExpiry = 30 * 60 * 1000 ms, the lifetime the provider gives a token.
tokenExpiry == 6

\* user.uid of the signed-in Firebase user
Users == {"u1"}
Services == {"userSessions", "userTokens"}

\* JavaScript undefined, for a numeric and for a string-valued field.
NoTime == -1
NoId == 0
Undefined == "undefined"

\* ------------------------------------------------------- input alphabets
Digits == {"0", "1", "2", "3", "4", "5", "6", "7", "8", "9"}
Whitespace == {" "}

PhoneSpaced == <<"+", "1", " ", "4", "1", "5", " ", "5", "5", "5", " ", "0", "1", "0", "0">>
PhoneLeadingZero == <<"0", "1", "2", "3", "4", "5", "6", "7", "8", "9">>
PhoneLetters == <<"b", "a", "d", "-", "p", "h", "o", "n", "e", "!">>
PhoneEmpty == << >>
Phones == {PhoneSpaced, PhoneLeadingZero, PhoneLetters, PhoneEmpty}

PassGood == <<"1", "2", "3", "4", "5", "6">>
PassShort == <<"1", "2", "3">>
PassLetters == <<"a", "b", "c", "d", "e", "f">>
PassEmpty == << >>
Passcodes == {PassGood, PassShort, PassLetters, PassEmpty}

\* Names the model may ask GeminiService.executeFunctionCall to run.
DataFunctionNames ==
    {"getNetWorth", "getMutualFunds", "getStocks", "getLoansAndCreditCards",
     "getPortfolioAnalysis"}
FunctionNames ==
    DataFunctionNames \cup {"initiateAuthentication", "completeAuthentication", "getWeather"}

\* Data methods each version of FiMcpService defines.
SessionsSingleCalls ==
    {"getNetWorth", "getMutualFunds", "getBankTransactions", "getEpfDetails",
     "getCreditReport"}
SessionsDataMethods == SessionsSingleCalls \cup {"getPortfolioAnalysis"}
TokensDataMethods ==
    {"getNetWorth", "getMutualFunds", "getStocks", "getLoansAndCreditCards",
     "getPortfolioAnalysis"}

\* What the provider can answer to a call.
RemoteOutcomes == {"ok", "rpcError", "unauthorized", "forbidden", "timeout"}

\* What the provider can send as the data of an answer.
Payloads == {"netWorthA", "netWorthB"}

\* The sub-calls of getPortfolioAnalysis (userSessions version), in the order
\* they are handed to Promise.allSettled.
SubCalls == <<"getNetWorth", "getMutualFunds", "getBankTransactions", "getEpfDetails">>

\* Orders in which the four sub-calls can settle: position k holds the
\* sub-call that settles k-th.
CompletionOrders ==
    {<<1, 2, 3, 4>>, <<3, 1, 4, 2>>, <<4, 3, 2, 1>>}

\* Sets of sub-calls (by position) whose remote call answers with a result:
\* none, one, two of four, all.
FulfilledSets == {{}, {2}, {1, 3}, {1, 2, 3, 4}}

VARIABLES
    service,        \* which FiMcpService the process loaded
    now,            \* Date.now(), in ticks: the origin of the time axis
    userSessions,   \* this.userSessions : Map, as a set of [key, val] entries
    userTokens,     \* this.userTokens : Map, as a set of [key, val] entries
    inflight,       \* remote calls awaiting their response
    last,           \* the step just taken and what it returned
    batch           \* sendMessageToGemini: the function calls being processed

vars == <<service, now, userSessions, userTokens, inflight, last, batch>>

\* ------------------------------------------------------------ Map (ES6)
MapHas(m, k) == \E e \in m : e.key = k
MapGet(m, k) == (CHOOSE e \in m : e.key = k).val
MapSet(m, k, v) == {e \in m : e.key # k} \cup {[key |-> k, val |-> v]}
MapDelete(m, k) == {e \in m : e.key # k}

\* `${userId}_session`
SessionKey(u) == u \o "_session"

\* ------------------------------------------------------------ validation
\* phoneNumber.replace(/\s+/g, '')
StripWhitespace(p) == SelectSeq(p, LAMBDA c : c \notin Whitespace)

\* !phoneNumber || !/^\+?[1-9]\d{1,14}$/.test(stripped)  is false
PhoneFormatOk(p) ==
    LET s == StripWhitespace(p)
        d == IF Len(s) > 0 /\ s[1] = "+" THEN Tail(s) ELSE s
    IN  /\ Len(p) > 0
        /\ Len(d) >= 2
        /\ Len(d) <= 15
        /\ d[1] \in Digits \ {"0"}
        /\ \A i \in 2..Len(d) : d[i] \in Digits

\* !passcode || !/^\d{6}$/.test(passcode)  is false
PasscodeFormatOk(p) == Len(p) = 6 /\ \A i \in 1..6 : p[i] \in Digits

\* Joi phoneSchema: string, min 10, max 15, /^[\d\s\+\-\(\)]+$/
PhoneSchemaOk(p) ==
    /\ Len(p) >= 10
    /\ Len(p) <= 15
    /\ \A i \in 1..Len(p) : p[i] \in Digits \cup Whitespace \cup {"+", "-", "(", ")"}

\* Joi passcodeSchema: string, /^\d{6}$/
PasscodeSchemaOk(p) == Len(p) = 6 /\ \A i \in 1..6 : p[i] \in Digits

\* --------------------------------------------------------------- records
\* report: the value returned: the data of a data call, the availableData
\* flags of a portfolio analysis; for an initiate the provider answered,
\* which of the pending initiate promises resolved; << >> otherwise
Step(op, u, res) == [op |-> op, user |-> u, res |-> res, report |-> << >>]

\* A remote call awaiting its response.  n tells apart the promises of calls
\* that carry the same request, in the order in which they were issued: the
\* k-th of the pending ones has n = k.
Call(op, u, ref) ==
    LET twins == {c \in inflight : c.op = op /\ c.user = u /\ c.ref = ref}
    IN  [op |-> op, user |-> u, ref |-> ref,
         n |-> IF twins = {} THEN 1
               ELSE 1 + (CHOOSE k \in {c.n : c \in twins} :
                            \A c \in twins : c.n <= k)]

\* The pending calls once the promise of c has settled.
Settled(c) ==
    {IF d.op = c.op /\ d.user = c.user /\ d.ref = c.ref /\ d.n > c.n
     THEN [d EXCEPT !.n = @ - 1]
     ELSE d : d \in inflight \ {c}}

\* sessionData of the userSessions service
NewSessionData(sid, phone) ==
    [sessionId |-> sid, phoneNumber |-> StripWhitespace(phone), timestamp |-> now,
     status |-> "pending", authenticatedAt |-> NoTime, token |-> NoId,
     expiresAt |-> NoTime]

\* the `${userId}_session` value of the userTokens service
NewPendingEntry(sid) ==
    [sessionId |-> sid, phoneNumber |-> << >>, timestamp |-> now,
     status |-> "pending", authenticatedAt |-> NoTime, token |-> NoId,
     expiresAt |-> NoTime]

\* the token value of the userTokens service
NewTokenEntry(tok, exp) ==
    [sessionId |-> NoId, phoneNumber |-> << >>, timestamp |-> now,
     status |-> Undefined, authenticatedAt |-> NoTime, token |-> tok,
     expiresAt |-> exp]

\* Identifiers some entry or some pending call still refers to.
LiveIds ==
    {e.val.sessionId : e \in userSessions \cup userTokens}
        \cup {e.val.token : e \in userTokens}
        \cup {c.ref : c \in inflight}

\* generateSessionId(): `mcp-session-${randomUUID()}`, an identifier no live
\* object carries (the lowest such number stands for it); the provider's own
\* sessionId in the userTokens version is generated the same way.
generateSessionId ==
    CHOOSE i \in 1..(Cardinality(LiveIds) + 1) :
        /\ i \notin LiveIds
        /\ \A j \in 1..(i - 1) : j \in LiveIds

\* ======================================================================
\* FiMcpService, userSessions version
\* ======================================================================

\* Mutant: the expiry test written with >= (a session is refused at the very
\* end of its window).
SessionsIsAuthenticatedOffByOne(u) ==
    IF ~MapHas(userSessions, u) \/ MapGet(userSessions, u).status # "authenticated"
    THEN FALSE
    ELSE ~(now - MapGet(userSessions, u).authenticatedAt >= sessionExpiry)

\* isAuthenticated(userId): the value returned
SessionsIsAuthenticated(u) ==
    IF ~MapHas(userSessions, u) \/ MapGet(userSessions, u).status # "authenticated"
    THEN FALSE
    ELSE ~(now - MapGet(userSessions, u).authenticatedAt > sessionExpiry)

\* isAuthenticated(userId): the map it leaves (an expired entry is deleted)
SessionsAfterIsAuthenticated(u) ==
    IF /\ MapHas(userSessions, u)
       /\ MapGet(userSessions, u).status = "authenticated"
       /\ now - MapGet(userSessions, u).authenticatedAt > sessionExpiry
    THEN MapDelete(userSessions, u)
    ELSE userSessions

\* Mutant: the record is stored before the phone number is tested.
SessionsInitiateStoreFirst(u, phone) ==
    /\ UNCHANGED <<service, now, userTokens, inflight>>
    /\ userSessions' = MapSet(userSessions, u, NewSessionData(generateSessionId, phone))
    /\ last' = Step("initiate", u, IF PhoneFormatOk(phone) THEN "ok" ELSE "InvalidPhone")

\* initiateAuthentication(userId, phoneNumber): no await, one atomic step
SessionsInitiate(u, phone) ==
    /\ UNCHANGED <<service, now, userTokens, inflight>>
    /\ IF ~PhoneFormatOk(phone)
       THEN /\ last' = Step("initiate", u, "InvalidPhone")
            /\ UNCHANGED <<userSessions>>
       ELSE /\ userSessions' = MapSet(userSessions, u, NewSessionData(generateSessionId, phone))
            /\ last' = Step("initiate", u, "ok")

\* Mutant: the status test left out of `!sessionData || status !== 'pending'`.
SessionsCompleteStartAnyStatus(u, passcode) ==
    /\ UNCHANGED <<service, now, userTokens>>
    /\ IF ~MapHas(userSessions, u)
       THEN /\ last' = Step("complete", u, "NoPendingSession")
            /\ UNCHANGED <<userSessions, inflight>>
       ELSE IF now - MapGet(userSessions, u).timestamp > sessionExpiry
       THEN /\ userSessions' = MapDelete(userSessions, u)
            /\ last' = Step("complete", u, "SessionExpired")
            /\ UNCHANGED inflight
       ELSE /\ inflight' = inflight \cup
                    {Call("complete", u, MapGet(userSessions, u).sessionId)}
            /\ last' = Step("complete", u, "issued")
            /\ UNCHANGED userSessions

\* completeAuthentication(userId, passcode) up to `await this.makeMcpCall(...)`
SessionsCompleteStart(u, passcode) ==
    /\ UNCHANGED <<service, now, userTokens>>
    /\ IF ~MapHas(userSessions, u) \/ MapGet(userSessions, u).status # "pending"
       THEN /\ last' = Step("complete", u, "NoPendingSession")
            /\ UNCHANGED <<userSessions, inflight>>
       ELSE IF now - MapGet(userSessions, u).timestamp > sessionExpiry
       THEN /\ userSessions' = MapDelete(userSessions, u)
            /\ last' = Step("complete", u, "SessionExpired")
            /\ UNCHANGED inflight
       ELSE /\ inflight' = inflight \cup
                    {Call("complete", u, MapGet(userSessions, u).sessionId)}
            /\ last' = Step("complete", u, "issued")
            /\ UNCHANGED userSessions

\* The sessionData object a pending call holds is the map's entry for as long
\* as the entry was neither deleted nor replaced (every entry has its own id).
SessionsStillStored(c) ==
    MapHas(userSessions, c.user) /\ MapGet(userSessions, c.user).sessionId = c.ref

\* completeAuthentication after the await: testResult arrived, or the call threw
SessionsCompleteResponse(c, outcome) ==
    /\ UNCHANGED <<service, now, userTokens>>
    /\ inflight' = Settled(c)
    /\ IF outcome = "ok"
       THEN /\ userSessions' =
                   IF SessionsStillStored(c)
                   THEN MapSet(userSessions, c.user,
                               [MapGet(userSessions, c.user) EXCEPT
                                   !.status = "authenticated", !.authenticatedAt = now])
                   ELSE userSessions
            /\ last' = Step("complete", c.user, "ok")
       ELSE /\ last' = Step("complete", c.user, "RemoteError")
            /\ UNCHANGED userSessions

\* Mutant: the `if (!this.isAuthenticated(userId)) throw` guard left out.
SessionsDataStartUnguarded(u) ==
    /\ UNCHANGED <<service, now, userTokens>>
    /\ userSessions' = userSessions
    /\ inflight' = inflight \cup
            {Call("data", u, IF MapHas(userSessions, u)
                             THEN MapGet(userSessions, u).sessionId
                             ELSE NoId)}
    /\ last' = Step("data", u, "issued")

\* getNetWorth, getMutualFunds, getBankTransactions, getEpfDetails,
\* getCreditReport up to `await this.makeMcpCall(...)`
SessionsDataStart(u) ==
    /\ UNCHANGED <<service, now, userTokens>>
    /\ userSessions' = SessionsAfterIsAuthenticated(u)
    /\ IF ~SessionsIsAuthenticated(u)
       THEN /\ last' = Step("data", u, "AuthenticationRequired")
            /\ UNCHANGED inflight
       ELSE /\ inflight' = inflight \cup
                    {Call("data", u, MapGet(userSessions, u).sessionId)}
            /\ last' = Step("data", u, "issued")

\* getPortfolioAnalysis up to `await Promise.allSettled([...])`: the four
\* sub-calls run to their own await in the same turn
SessionsPortfolioStart(u) ==
    /\ UNCHANGED <<service, now, userTokens>>
    /\ userSessions' = SessionsAfterIsAuthenticated(u)
    /\ IF ~SessionsIsAuthenticated(u)
       THEN /\ last' = Step("data", u, "AuthenticationRequired")
            /\ UNCHANGED inflight
       ELSE /\ inflight' = inflight \cup
                    {Call("portfolio", u, MapGet(userSessions, u).sessionId)}
            /\ last' = Step("data", u, "issued")

\* response.data of makeMcpCall: the JSON-RPC envelope of the answer
McpEnvelope(outcome, payload) ==
    IF outcome = "ok"
    THEN [result |-> payload, error |-> Undefined]
    ELSE [result |-> Undefined, error |-> outcome]

\* Mutant: the envelope's error member returned instead of result.result.
SessionsDataResponseReturnsError(c, outcome, payload) ==
    /\ UNCHANGED <<service, now, userSessions, userTokens>>
    /\ inflight' = Settled(c)
    /\ LET result == McpEnvelope(outcome, payload)
       IN  last' = IF outcome \in {"ok", "rpcError"} /\ result.error = Undefined
                   THEN [Step("data", c.user, "ok") EXCEPT !.report = result.error]
                   ELSE Step("data", c.user, "RemoteError")

\* a data method after the await: makeMcpCall threw, or it returned the
\* envelope: result.error throws, otherwise result.result is returned
SessionsDataResponse(c, outcome, payload) ==
    /\ UNCHANGED <<service, now, userSessions, userTokens>>
    /\ inflight' = Settled(c)
    /\ LET result == McpEnvelope(outcome, payload)
       IN  last' = IF outcome \in {"ok", "rpcError"} /\ result.error = Undefined
                   THEN [Step("data", c.user, "ok") EXCEPT !.report = result.result]
                   ELSE Step("data", c.user, "RemoteError")

\* Promise.allSettled: each promise, as it settles, writes its outcome at its
\* own position of the result array; k promises have settled so far.
RECURSIVE AllSettled(_, _, _, _)
AllSettled(order, fulfilled, k, results) ==
    IF k = Len(SubCalls)
    THEN results
    ELSE AllSettled(order, fulfilled, k + 1,
                    [results EXCEPT ![order[k + 1]] = (order[k + 1] \in fulfilled)])

\* analysis.availableData: netWorth.status === 'fulfilled', ...
AvailableData(order, fulfilled) ==
    AllSettled(order, fulfilled, 0, [i \in 1..Len(SubCalls) |-> FALSE])

\* getPortfolioAnalysis after Promise.allSettled: always an analysis object.
\* fulfilled: the sub-calls whose remote call answered with a result.
SessionsPortfolioResponse(c, order, fulfilled) ==
    /\ UNCHANGED <<service, now, userSessions, userTokens>>
    /\ inflight' = Settled(c)
    /\ last' = [Step("data", c.user, "ok") EXCEPT !.report = AvailableData(order, fulfilled)]

\* disconnect(userId)
SessionsDisconnect(u) ==
    /\ userSessions' = MapDelete(userSessions, u)
    /\ last' = Step("disconnect", u, "ok")
    /\ UNCHANGED <<service, now, userTokens, inflight>>

\* cleanupExpiredSessions(): the setInterval callback
SessionsAfterCleanup ==
    {e \in userSessions : ~(now - e.val.timestamp > sessionExpiry)}

\* ======================================================================
\* FiMcpService, userTokens version
\* ======================================================================

\* isAuthenticated(userId): the value returned.  `new Date() > undefined`
\* is false, so an entry without expiresAt never counts as expired.
TokensExpired(entry) == entry.expiresAt # NoTime /\ now > entry.expiresAt

TokensIsAuthenticated(u) ==
    IF ~MapHas(userTokens, u)
    THEN FALSE
    ELSE ~TokensExpired(MapGet(userTokens, u))

\* isAuthenticated(userId): the map it leaves
TokensAfterIsAuthenticated(u) ==
    IF MapHas(userTokens, u) /\ TokensExpired(MapGet(userTokens, u))
    THEN MapDelete(userTokens, u)
    ELSE userTokens

\* initiateAuthentication up to `await axios.post(.../auth/initiate)`
TokensInitiateStart(u, phone) ==
    /\ UNCHANGED <<service, now, userSessions, userTokens>>
    /\ IF ~PhoneFormatOk(phone)
       THEN /\ last' = Step("initiate", u, "InvalidPhone")
            /\ UNCHANGED inflight
       ELSE /\ inflight' = inflight \cup {Call("initiate", u, NoId)}
            /\ last' = Step("initiate", u, "issued")

\* initiateAuthentication after the await: the provider answered with a
\* sessionId of its own making, or the call threw
TokensInitiateResponse(c, outcome) ==
    /\ UNCHANGED <<service, now, userSessions>>
    /\ inflight' = Settled(c)
    /\ IF outcome = "ok"
       THEN /\ userTokens' =
                   MapSet(userTokens, SessionKey(c.user), NewPendingEntry(generateSessionId))
            /\ last' = [Step("initiate", c.user, "ok") EXCEPT !.report = <<c.n>>]
       ELSE /\ last' = Step("initiate", c.user, "RemoteError")
            /\ UNCHANGED <<userTokens>>

\* completeAuthentication up to `await axios.post(.../auth/complete)`; every
\* throw passes through the catch block, which deletes the pending entry
TokensCompleteStart(u, passcode) ==
    /\ UNCHANGED <<service, now, userSessions>>
    /\ IF ~PasscodeFormatOk(passcode)
       THEN /\ userTokens' = MapDelete(userTokens, SessionKey(u))
            /\ last' = Step("complete", u, "InvalidPasscode")
            /\ UNCHANGED inflight
       ELSE IF \/ ~MapHas(userTokens, SessionKey(u))
               \/ MapGet(userTokens, SessionKey(u)).status # "pending"
       THEN /\ userTokens' = MapDelete(userTokens, SessionKey(u))
            /\ last' = Step("complete", u, "NoPendingSession")
            /\ UNCHANGED inflight
       ELSE IF now - MapGet(userTokens, SessionKey(u)).timestamp > passcodeWindow
       THEN /\ userTokens' = MapDelete(userTokens, SessionKey(u))
            /\ last' = Step("complete", u, "SessionExpired")
            /\ UNCHANGED inflight
       ELSE /\ inflight' = inflight \cup
                    {Call("complete", u, MapGet(userTokens, SessionKey(u)).sessionId)}
            /\ last' = Step("complete", u, "issued")
            /\ UNCHANGED userTokens

\* completeAuthentication after the await: { token, expiresAt } arrived and
\* is stored under userId, or the call threw (catch block)
TokensCompleteResponse(c, outcome) ==
    /\ UNCHANGED <<service, now, userSessions>>
    /\ inflight' = Settled(c)
    /\ IF outcome = "ok"
       THEN /\ userTokens' =
                   MapDelete(MapSet(userTokens, c.user,
                                    NewTokenEntry(c.ref, now + tokenExpiry)),
                             SessionKey(c.user))
            /\ last' = Step("complete", c.user, "ok")
       ELSE /\ userTokens' = MapDelete(userTokens, SessionKey(c.user))
            /\ last' = Step("complete", c.user, "RemoteError")

\* Mutant: a disconnect runs between the isAuthenticated check and the read
\* of tokenData; the call goes out without a token.
TokensDataStartReadsLate(u) ==
    /\ UNCHANGED <<service, now, userSessions>>
    /\ IF ~TokensIsAuthenticated(u)
       THEN /\ userTokens' = TokensAfterIsAuthenticated(u)
            /\ last' = Step("data", u, "AuthenticationRequired")
            /\ UNCHANGED inflight
       ELSE /\ userTokens' = MapDelete(userTokens, u)
            /\ inflight' = inflight \cup {Call("data", u, NoId)}
            /\ last' = Step("data", u, "issued")

\* getNetWorth, getMutualFunds, getStocks, getLoansAndCreditCards,
\* getPortfolioAnalysis up to `await axios.get(...)`
TokensDataStart(u) ==
    /\ UNCHANGED <<service, now, userSessions>>
    /\ userTokens' = TokensAfterIsAuthenticated(u)
    /\ IF ~TokensIsAuthenticated(u)
       THEN /\ last' = Step("data", u, "AuthenticationRequired")
            /\ UNCHANGED inflight
       ELSE /\ inflight' = inflight \cup {Call("data", u, MapGet(userTokens, u).token)}
            /\ last' = Step("data", u, "issued")

\* Mutant: the catch block deletes the token on every error.
TokensDataResponseDropsOnError(c, outcome, payload) ==
    /\ UNCHANGED <<service, now, userSessions>>
    /\ inflight' = Settled(c)
    /\ IF outcome = "ok"
       THEN /\ last' = [Step("data", c.user, "ok") EXCEPT !.report = payload]
            /\ UNCHANGED userTokens
       ELSE /\ userTokens' = MapDelete(userTokens, c.user)
            /\ last' = Step("data", c.user,
                             IF outcome = "unauthorized"
                             THEN "AuthenticationRequired" ELSE "RemoteError")

\* a data method after the await: response.data, or the catch block
\* (error.response?.status === 401 deletes the entry under userId)
TokensDataResponse(c, outcome, payload) ==
    /\ UNCHANGED <<service, now, userSessions>>
    /\ inflight' = Settled(c)
    /\ IF outcome = "ok"
       THEN /\ last' = [Step("data", c.user, "ok") EXCEPT !.report = payload]
            /\ UNCHANGED userTokens
       ELSE IF outcome = "unauthorized"
       THEN /\ userTokens' = MapDelete(userTokens, c.user)
            /\ last' = Step("data", c.user, "AuthenticationRequired")
       ELSE /\ last' = Step("data", c.user, "RemoteError")
            /\ UNCHANGED userTokens

\* cleanupExpiredTokens(): the setInterval callback
TokensAfterCleanup == {e \in userTokens : ~TokensExpired(e.val)}

\* ======================================================================
\* Callers: the auth routes and GeminiService.executeFunctionCall
\* ======================================================================

\* fiMcpService.initiateAuthentication of the loaded version
initiateAuthentication(u, phone) ==
    IF service = "userSessions"
    THEN SessionsInitiate(u, phone)
    ELSE TokensInitiateStart(u, phone)

\* fiMcpService.completeAuthentication of the loaded version
completeAuthentication(u, passcode) ==
    IF service = "userSessions"
    THEN SessionsCompleteStart(u, passcode)
    ELSE TokensCompleteStart(u, passcode)

\* A response that fails before it reaches the service.
Reject(op, u, res) ==
    /\ last' = Step(op, u, res)
    /\ UNCHANGED <<service, now, userSessions, userTokens, inflight>>

\* fiMcpService[name](userId); a name the loaded version does not define is
\* "fiMcpService.<name> is not a function"
dataMethod(u, name) ==
    IF service = "userSessions"
    THEN IF name \in SessionsSingleCalls THEN SessionsDataStart(u)
         ELSE IF name = "getPortfolioAnalysis" THEN SessionsPortfolioStart(u)
         ELSE Reject("data", u, "TypeError")
    ELSE IF name \in TokensDataMethods THEN TokensDataStart(u)
         ELSE Reject("data", u, "TypeError")

\* Mutant: the default case of the switch runs getNetWorth.
executeFunctionCallDefaultsToData(u, name, arg) ==
    IF name \in DataFunctionNames THEN dataMethod(u, name)
    ELSE IF name = "initiateAuthentication"
    THEN IF Len(arg) = 0 THEN Reject("initiate", u, "PhoneRequired")
         ELSE initiateAuthentication(u, arg)
    ELSE IF name = "completeAuthentication"
    THEN IF Len(arg) = 0 THEN Reject("complete", u, "PasscodeRequired")
         ELSE completeAuthentication(u, arg)
    ELSE dataMethod(u, "getNetWorth")

\* GeminiService.executeFunctionCall({ name, args }, userId); arg is
\* args.phoneNumber or args.passcode
executeFunctionCall(u, name, arg) ==
    IF name \in DataFunctionNames THEN dataMethod(u, name)
    ELSE IF name = "initiateAuthentication"
    THEN IF Len(arg) = 0 THEN Reject("initiate", u, "PhoneRequired")
         ELSE initiateAuthentication(u, arg)
    ELSE IF name = "completeAuthentication"
    THEN IF Len(arg) = 0 THEN Reject("complete", u, "PasscodeRequired")
         ELSE completeAuthentication(u, arg)
    ELSE Reject("unknown", u, "UnknownFunction")

\* POST /api/auth/fi-mcp/initiate
RouteInitiate(u, phone) ==
    IF ~PhoneSchemaOk(phone)
    THEN Reject("initiate", u, "ValidationError")
    ELSE initiateAuthentication(u, StripWhitespace(phone))

\* POST /api/auth/fi-mcp/complete
RouteComplete(u, passcode) ==
    IF ~PasscodeSchemaOk(passcode)
    THEN Reject("complete", u, "ValidationError")
    ELSE completeAuthentication(u, passcode)

\* GET /api/auth/fi-mcp/status: fiMcpService.isAuthenticated(user.uid)
RouteStatus(u) ==
    /\ UNCHANGED <<service, now, inflight>>
    /\ IF service = "userSessions"
       THEN /\ userSessions' = SessionsAfterIsAuthenticated(u)
            /\ last' = Step("isAuthenticated", u,
                             IF SessionsIsAuthenticated(u) THEN "true" ELSE "false")
            /\ UNCHANGED userTokens
       ELSE /\ userTokens' = TokensAfterIsAuthenticated(u)
            /\ last' = Step("isAuthenticated", u,
                             IF TokensIsAuthenticated(u) THEN "true" ELSE "false")
            /\ UNCHANGED userSessions

\* POST /api/auth/fi-mcp/disconnect: fiMcpService.userTokens.delete(user.uid).
\* The userSessions version has no userTokens: the call throws a TypeError,
\* which the route's catch turns into a 500 "Disconnect Failed".
RouteDisconnect(u) ==
    IF service = "userSessions"
    THEN Reject("disconnect", u, "DisconnectFailed")
    ELSE /\ userTokens' = MapDelete(userTokens, u)
         /\ last' = Step("disconnect", u, "ok")
         /\ UNCHANGED <<service, now, userSessions, inflight>>

\* fiMcpService.disconnect(userId), a method of the userSessions version only
ServiceDisconnect(u) ==
    /\ service = "userSessions"
    /\ SessionsDisconnect(u)

\* getBankTransactions, getEpfDetails, getCreditReport: methods of the
\* userSessions version that executeFunctionCall has no case for.
ServiceData(u, name) ==
    /\ service = "userSessions"
    /\ dataMethod(u, name)

\* The provider's answer to an initiate reaches its handler.
InitiateResponse(c, outcome) ==
    /\ c.op = "initiate"
    /\ TokensInitiateResponse(c, outcome)

\* The provider's answer to a complete reaches its handler.
CompleteResponse(c, outcome) ==
    /\ c.op = "complete"
    /\ IF service = "userSessions"
       THEN SessionsCompleteResponse(c, outcome)
       ELSE TokensCompleteResponse(c, outcome)

\* The provider's answer to a data call, carrying payload when it is a
\* result, reaches its handler.
DataAnswer(c, outcome, payload) ==
    /\ c.op = "data"
    /\ IF service = "userSessions"
       THEN SessionsDataResponse(c, outcome, payload)
       ELSE TokensDataResponse(c, outcome, payload)

\* The provider's answer to a data call reaches its handler.
DataResponse(c, outcome) == \E payload \in Payloads : DataAnswer(c, outcome, payload)

\* All four sub-calls of a portfolio analysis have settled (userSessions
\* version; in the userTokens version getPortfolioAnalysis is one data call).
PortfolioResponse(c) ==
    /\ c.op = "portfolio"
    /\ \E order \in CompletionOrders, fulfilled \in FulfilledSets :
           SessionsPortfolioResponse(c, order, fulfilled)

\* setInterval(() => this.cleanupExpiredSessions(), 5 * 60 * 1000)
cleanupExpiredSessions ==
    /\ service = "userSessions"
    /\ userSessions' = SessionsAfterCleanup
    /\ last' = Step("cleanup", "", "")
    /\ UNCHANGED <<service, now, userTokens, inflight, batch>>

\* setInterval(() => fiMcpService.cleanupExpiredTokens(), 5 * 60 * 1000)
cleanupExpiredTokens ==
    /\ service = "userTokens"
    /\ userTokens' = TokensAfterCleanup
    /\ last' = Step("cleanup", "", "")
    /\ UNCHANGED <<service, now, userSessions, inflight, batch>>

\* A stored instant t, one tick later.
Earlier(t) == IF t = NoTime THEN NoTime ELSE IF t > 0 THEN t - 1 ELSE 0

\* A stored entry, one tick later.
Aged(e) ==
    [e EXCEPT !.val.timestamp = Earlier(@),
              !.val.authenticatedAt = Earlier(@),
              !.val.expiresAt = Earlier(@)]

\* The wall clock advances by one tick.
Tick ==
    /\ userSessions' = {Aged(e) : e \in userSessions}
    /\ userTokens' = {Aged(e) : e \in userTokens}
    /\ last' = Step("tick", "", "")
    /\ UNCHANGED <<service, now, inflight, batch>>

\* No function calls being processed.
IdleBatch ==
    [user |-> "", functionCalls |-> << >>, next |-> 1, awaiting |-> FALSE,
     functionResponses |-> << >>]

Init ==
    /\ service \in Services
    /\ now = MaxTime
    /\ userSessions = {}
    /\ userTokens = {}
    /\ inflight = {}
    /\ last = Step("start", "", "")
    /\ batch = IdleBatch

\* At most k remote calls await their response after the step.
InflightWithin(k) == Cardinality(inflight') <= k

\* One function call dispatched on its own.
FunctionCall ==
    \E u \in Users :
        \/ \E name \in FunctionNames \ {"initiateAuthentication", "completeAuthentication"} :
               executeFunctionCall(u, name, << >>) /\ UNCHANGED batch /\ InflightWithin(MaxInflight)
        \/ \E phone \in Phones :
               executeFunctionCall(u, "initiateAuthentication", phone) /\ UNCHANGED batch /\ InflightWithin(MaxInflight)
        \/ \E passcode \in Passcodes :
               executeFunctionCall(u, "completeAuthentication", passcode) /\ UNCHANGED batch /\ InflightWithin(MaxInflight)

Request ==
    \E u \in Users :
        \/ \E phone \in Phones : RouteInitiate(u, phone) /\ UNCHANGED batch /\ InflightWithin(MaxInflight)
        \/ \E passcode \in Passcodes : RouteComplete(u, passcode) /\ UNCHANGED batch /\ InflightWithin(MaxInflight)
        \/ RouteStatus(u) /\ UNCHANGED batch /\ InflightWithin(MaxInflight)
        \/ RouteDisconnect(u) /\ UNCHANGED batch /\ InflightWithin(MaxInflight)

Direct ==
    \E u \in Users :
        \/ ServiceDisconnect(u) /\ UNCHANGED batch /\ InflightWithin(MaxInflight)
        \/ \E name \in SessionsDataMethods \ DataFunctionNames :
               ServiceData(u, name) /\ UNCHANGED batch /\ InflightWithin(MaxInflight)

\* The promise of remote call c settles.
Settle(c) ==
    \/ \E outcome \in RemoteOutcomes : InitiateResponse(c, outcome)
    \/ \E outcome \in RemoteOutcomes : CompleteResponse(c, outcome)
    \/ \E outcome \in RemoteOutcomes : DataResponse(c, outcome)
    \/ PortfolioResponse(c)

Response ==
    \E c \in inflight :
        \/ \E outcome \in RemoteOutcomes : InitiateResponse(c, outcome) /\ UNCHANGED batch
        \/ \E outcome \in RemoteOutcomes : CompleteResponse(c, outcome) /\ UNCHANGED batch
        \/ \E outcome \in RemoteOutcomes : DataResponse(c, outcome) /\ UNCHANGED batch
        \/ PortfolioResponse(c) /\ UNCHANGED batch

Next ==
    \/ FunctionCall
    \/ Request
    \/ Direct
    \/ Response
    \/ cleanupExpiredSessions
    \/ cleanupExpiredTokens
    \/ Tick

Spec == Init /\ [][Next]_vars

\* ======================================================================
\* GeminiService.sendMessageToGemini: a batch of function calls
\* ======================================================================

\* Function calls the model may request: name and args.phoneNumber or
\* args.passcode.
BatchCalls ==
    {[name |-> "getNetWorth", arg |-> << >>],
     [name |-> "initiateAuthentication", arg |-> PhoneSpaced],
     [name |-> "initiateAuthentication", arg |-> PhoneLetters],
     [name |-> "completeAuthentication", arg |-> PassGood],
     [name |-> "getWeather", arg |-> << >>]}

\* response.functionCalls: from one call to MaxBatch calls
Batches == UNION {[1..n -> BatchCalls] : n \in 1..MaxBatch}

\* The entry pushed for a call: { name, response: functionResult }, or in the
\* catch block { name, response: { error: error.message, success: false } }
Entry(fc, res) == [name |-> fc.name, error |-> (res # "ok"), response |-> res]

\* chat.sendMessage(message) answered with function calls
StartBatch(u, calls) ==
    /\ batch = IdleBatch
    /\ batch' = [IdleBatch EXCEPT !.user = u, !.functionCalls = calls]
    /\ last' = Step("batch", u, "start")
    /\ UNCHANGED <<service, now, userSessions, userTokens, inflight>>

\* Mutant: the loop without its try/catch; a failing call raises out of it
\* and the calls after it are not executed.
BatchCallUncaught ==
    /\ batch.next <= Len(batch.functionCalls)
    /\ ~batch.awaiting
    /\ LET fc == batch.functionCalls[batch.next]
       IN  /\ executeFunctionCall(batch.user, fc.name, fc.arg)
           /\ batch' =
                 IF last'.res = "issued"
                 THEN [batch EXCEPT !.awaiting = TRUE]
                 ELSE IF last'.res # "ok"
                 THEN [batch EXCEPT !.next = Len(batch.functionCalls) + 1]
                 ELSE [batch EXCEPT !.next = @ + 1,
                                    !.functionResponses = Append(@, Entry(fc, last'.res))]

\* One turn of `for (const functionCall of functionCalls)`, up to the first
\* await of a remote call or, when there is none, to the push of its entry
BatchCall ==
    /\ batch.next <= Len(batch.functionCalls)
    /\ ~batch.awaiting
    /\ LET fc == batch.functionCalls[batch.next]
       IN  /\ executeFunctionCall(batch.user, fc.name, fc.arg)
           /\ batch' =
                 IF last'.res = "issued"
                 THEN [batch EXCEPT !.awaiting = TRUE]
                 ELSE [batch EXCEPT !.next = @ + 1,
                                    !.functionResponses = Append(@, Entry(fc, last'.res))]

\* The remote call of the current function call settles: its entry is pushed
BatchResume ==
    /\ batch.awaiting
    /\ \E c \in inflight :
          /\ Settle(c)
          /\ batch' = [batch EXCEPT
                          !.awaiting = FALSE,
                          !.next = @ + 1,
                          !.functionResponses =
                              Append(@, Entry(batch.functionCalls[batch.next], last'.res))]

\* chat.sendMessage({ functionResponses }): the responses go back to the model
BatchDone ==
    /\ batch # IdleBatch
    /\ batch.next > Len(batch.functionCalls)
    /\ batch' = IdleBatch
    /\ last' = Step("batch", batch.user, "done")
    /\ UNCHANGED <<service, now, userSessions, userTokens, inflight>>

\* The batches of one user, with the clock and the sweeps running.
NextBatch ==
    \/ \E u \in Users, calls \in Batches : StartBatch(u, calls)
    \/ BatchCall
    \/ BatchResume
    \/ BatchDone
    \/ cleanupExpiredSessions
    \/ cleanupExpiredTokens
    \/ Tick

SpecBatch == Init /\ [][NextBatch]_vars

\* ======================================================================
\* Overlapping requests of one user
\* ======================================================================

\* Well-formed requests only: what is left to vary is how the requests, the
\* provider's answers, the sweeps and the clock interleave.
OverlapRequest ==
    \E u \in Users :
        \/ /\ executeFunctionCall(u, "initiateAuthentication", PhoneSpaced)
           /\ UNCHANGED batch /\ InflightWithin(MaxOverlap)
        \/ /\ executeFunctionCall(u, "completeAuthentication", PassGood)
           /\ UNCHANGED batch /\ InflightWithin(MaxOverlap)
        \/ \E name \in {"getNetWorth", "getPortfolioAnalysis"} :
              /\ executeFunctionCall(u, name, << >>)
              /\ UNCHANGED batch /\ InflightWithin(MaxOverlap)
        \/ RouteStatus(u) /\ UNCHANGED batch
        \/ RouteDisconnect(u) /\ UNCHANGED batch
        \/ ServiceDisconnect(u) /\ UNCHANGED batch

NextOverlap ==
    \/ OverlapRequest
    \/ Response
    \/ cleanupExpiredSessions
    \/ cleanupExpiredTokens
    \/ Tick

SpecOverlap == Init /\ [][NextOverlap]_vars

\* ======================================================================
\* Two users
\* ======================================================================

\* Two signed-in users.  The identifier of the second is the first's followed
\* by "_session": user.uid is whatever string the identity provider issued.
Tenants == {"u1", SessionKey("u1")}

\* GET /api/auth/fi-mcp/query-data: fiMcpService.queryStoredData(user.uid),
\* { sessionData, allSessions }.  The userTokens version has no such method:
\* the call throws, the route answers 500 "Query Failed".
RouteQueryData(u) ==
    /\ UNCHANGED <<service, now, userSessions, userTokens, inflight>>
    /\ last' = IF service = "userSessions"
               THEN [Step("query", u, "ok") EXCEPT
                        !.report = [sessionData |-> {e \in userSessions : e.key = u},
                                    allSessions |-> userSessions]]
               ELSE Step("query", u, "QueryFailed")

\* Well-formed requests of either user.
TenantRequest ==
    \E u \in Tenants :
        \/ /\ executeFunctionCall(u, "initiateAuthentication", PhoneSpaced)
           /\ UNCHANGED batch /\ InflightWithin(MaxInflight)
        \/ /\ executeFunctionCall(u, "completeAuthentication", PassGood)
           /\ UNCHANGED batch /\ InflightWithin(MaxInflight)
        \/ \E name \in {"getNetWorth", "getPortfolioAnalysis"} :
              /\ executeFunctionCall(u, name, << >>)
              /\ UNCHANGED batch /\ InflightWithin(MaxInflight)
        \/ RouteStatus(u) /\ UNCHANGED batch
        \/ RouteQueryData(u) /\ UNCHANGED batch
        \/ RouteDisconnect(u) /\ UNCHANGED batch
        \/ ServiceDisconnect(u) /\ UNCHANGED batch

\* The requests of the two users and the provider's answers, inside one tick
\* of the clock: nothing expires.
NextTenants ==
    \/ TenantRequest
    \/ Response

SpecTenants == Init /\ [][NextTenants]_vars

\* ======================================================================
\* Properties
\* ======================================================================

\* u has a record with status authenticated whose window has not elapsed.
Authenticated(u) ==
    IF service = "userSessions"
    THEN \E e \in userSessions :
            /\ e.key = u
            /\ e.val.status = "authenticated"
            /\ now <= e.val.authenticatedAt + sessionExpiry
    ELSE \E e \in userTokens :
            /\ e.key = u
            /\ e.val.token # NoId
            /\ now <= e.val.expiresAt

\* The last instant of the window of u's authenticated record.
ValidUntil(u) ==
    IF service = "userSessions"
    THEN MapGet(userSessions, u).authenticatedAt + sessionExpiry
    ELSE MapGet(userTokens, u).expiresAt

\* u has a pending record.
HasPending(u) ==
    IF service = "userSessions"
    THEN \E e \in userSessions : e.key = u /\ e.val.status = "pending"
    ELSE \E e \in userTokens : e.key = SessionKey(u) /\ e.val.status = "pending"

\* The session records the store holds for u.
RecordsOf(u) == {e \in userSessions \cup userTokens : e.key \in {u, SessionKey(u)}}

SixDigits(p) == Len(p) = 6 /\ \A i \in DOMAIN p : p[i] \in Digits

StoreUnchanged == userSessions' = userSessions /\ userTokens' = userTokens

C2_AuthenticatedUntilWindowElapses ==
    [][\A u \in Users :
          (/\ Authenticated(u)
           /\ ~(last'.user = u /\ last'.op \in {"initiate", "disconnect"})
           /\ ~(last'.user = u /\ last'.op = "data"
                                /\ last'.res = "AuthenticationRequired"))
          => (Authenticated(u))' \/ (Tick /\ now = ValidUntil(u))]_vars

\* C3 (as claimed): right after a disconnect for u, through the service
\* method or through POST /fi-mcp/disconnect, isAuthenticated(u) is false.
C3_DisconnectEndsSession ==
    last.op = "disconnect" => ~Authenticated(last.user)

\* C4 (as claimed): an unauthorized (401 or 403) answer to a data call of u
\* removes u's session before the error is returned, and the caller gets the
\* authentication-required error.
C4_UnauthorizedDemotes ==
    [][\A c \in inflight : \A outcome \in {"unauthorized", "forbidden"} :
          DataResponse(c, outcome)
          => (last'.res = "AuthenticationRequired" /\ ~(Authenticated(c.user))')]_vars

\* C5 (as claimed): the store never holds two session records of one user.
C5_OneRecordPerUser ==
    \A u \in Users : Cardinality(RecordsOf(u)) <= 1

C7_CompleteAfterPendingWindow ==
    [][\A u \in Users, p \in Passcodes :
          (/\ \E e \in RecordsOf(u) :
                  e.val.status = "pending" /\ now - e.val.timestamp > passcodeWindow
           /\ completeAuthentication(u, p))
          => (/\ last'.res = "SessionExpired"
              /\ inflight' = inflight
              /\ (RecordsOf(u))' = {})]_vars

C9_MalformedPasscodeRefused ==
    [][\A u \in Users, p \in Passcodes :
          (/\ ~SixDigits(p)
           /\ HasPending(u)
           /\ RouteComplete(u, p) \/ executeFunctionCall(u, "completeAuthentication", p))
          => (/\ last'.res \in {"InvalidPasscode", "ValidationError", "PasscodeRequired"}
              /\ StoreUnchanged
              /\ inflight' = inflight)]_vars

\* C10 (as claimed): after a successful initiate u's only record is the new
\* pending one, created now, and u is not authenticated.
C10_InitiateSupersedes ==
    (last.op = "initiate" /\ last.res = "ok")
    => (/\ \A e \in RecordsOf(last.user) :
               e.val.status = "pending" /\ e.val.timestamp = now
        /\ Cardinality(RecordsOf(last.user)) = 1
        /\ ~Authenticated(last.user))

\* C11: initiateAuthentication with a phone number that fails the pattern
\* test fails as invalid input, issues no remote call and leaves every
\* record as it was.
C11_InvalidPhoneRefused ==
    [][\A u \in Users, phone \in Phones :
          (~PhoneFormatOk(phone) /\ initiateAuthentication(u, phone))
          => (last'.res = "InvalidPhone" /\ StoreUnchanged /\ inflight' = inflight)]_vars

C11_Witness ==
    /\ last = Step("initiate", "u1", "InvalidPhone")
    /\ RecordsOf("u1") # {}

\* The age after which completeAuthentication refuses a pending record.
PendingWindow == IF service = "userSessions" THEN sessionExpiry ELSE passcodeWindow

\* The window of record e has elapsed: a pending record is older than the
\* pending window, an authenticated one is past its authenticated window.
WindowElapsed(e) ==
    IF e.val.status = "pending"
    THEN now - e.val.timestamp > PendingWindow
    ELSE IF service = "userSessions"
    THEN now - e.val.authenticatedAt > sessionExpiry
    ELSE now > e.val.expiresAt

\* C12 (as claimed): a run of the periodic sweep leaves no record, pending
\* or authenticated, whose window has elapsed.
C12_SweepRemovesExpired ==
    last.op = "cleanup" => \A e \in userSessions \cup userTokens : ~WindowElapsed(e)

\* C13 (as claimed): a portfolio analysis issued for an authenticated user
\* always ends in a result, never in an error, and the result reports for
\* each of the four sub-calls whether it succeeded, whatever the order in
\* which they settled.  In the userTokens version getPortfolioAnalysis is
\* one of the data calls.
C13_PortfolioNeverFails ==
    [][\A c \in inflight :
          /\ (PortfolioResponse(c)
                 \/ (service = "userTokens" /\ \E outcome \in RemoteOutcomes :
                                                  DataResponse(c, outcome)))
             => last'.res = "ok"
          /\ \A order \in CompletionOrders, fulfilled \in FulfilledSets :
                 (c.op = "portfolio" /\ SessionsPortfolioResponse(c, order, fulfilled))
                 => last'.report = [i \in 1..Len(SubCalls) |-> i \in fulfilled]]_vars

\* C14: a data call that ends in a timeout or in another error that is not
\* an unauthorized answer fails with a remote error and leaves every session
\* record as it was (same status, credential and expiry).
C14_TransportErrorKeepsSession ==
    [][\A c \in inflight : \A outcome \in {"rpcError", "timeout"} :
          DataResponse(c, outcome)
          => (last'.res = "RemoteError" /\ StoreUnchanged)]_vars

C14_Witness ==
    /\ last = Step("data", "u1", "RemoteError")
    /\ Authenticated("u1")
    /\ \E e \in RecordsOf("u1") : e.val.timestamp < now

\* C15 (as claimed): for a user who is not authenticated, dispatching any of
\* the data functions of the dispatcher fails with the
\* authentication-required error and with no other error.
C15_DataDispatchNeedsAuthentication ==
    [][\A u \in Users, name \in DataFunctionNames :
          (~Authenticated(u) /\ executeFunctionCall(u, name, << >>))
          => last'.res = "AuthenticationRequired"]_vars

\* The names the switch of executeFunctionCall has a case for.
KnownFunctionNames ==
    DataFunctionNames \cup {"initiateAuthentication", "completeAuthentication"}

\* C16: dispatching a name the dispatcher has no case for fails with the
\* unknown-function error, issues no remote call and leaves every session
\* record as it was, whatever the user's session state.
C16_UnknownFunctionRefused ==
    [][\A u \in Users, name \in FunctionNames \ KnownFunctionNames, arg \in Phones \cup Passcodes :
          executeFunctionCall(u, name, arg)
          => (last'.res = "UnknownFunction" /\ StoreUnchanged /\ inflight' = inflight)]_vars

C16_Witness ==
    /\ last = Step("unknown", "u1", "UnknownFunction")
    /\ Authenticated("u1")

\* C17: while a batch of function calls is processed, every call executed so
\* far, failed or not, has exactly one entry in functionResponses, in request
\* order; a failure is an entry carrying the error, and it does not keep the
\* calls after it from being executed.
C17_OneEntryPerCall ==
    /\ batch.next <= Len(batch.functionCalls) + 1
    /\ Len(batch.functionResponses) = batch.next - 1
    /\ \A i \in 1..Len(batch.functionResponses) :
          /\ batch.functionResponses[i].name = batch.functionCalls[i].name
          /\ batch.functionResponses[i].error = (batch.functionResponses[i].response # "ok")

C17_Witness ==
    /\ Len(batch.functionCalls) = 2
    /\ Len(batch.functionResponses) = 2
    /\ batch.functionResponses[1].response = "RemoteError"
    /\ batch.functionResponses[2].response = "ok"

PendingInWindow(u) ==
    \E e \in RecordsOf(u) :
        e.val.status = "pending" /\ now - e.val.timestamp <= passcodeWindow

\* The sessionId of u's pending record.
PendingId(u) ==
    IF service = "userSessions"
    THEN MapGet(userSessions, u).sessionId
    ELSE MapGet(userTokens, SessionKey(u)).sessionId

\* The credential stored for u: the session identifier (the bearer token in
\* the userTokens version).
Credential(u) ==
    IF service = "userSessions"
    THEN MapGet(userSessions, u).sessionId
    ELSE MapGet(userTokens, u).token

\* C19: a complete with a 6-digit passcode inside the pending window goes to
\* the provider with the pending sessionId; when the provider accepts and the
\* pending record is still the stored one, u is authenticated; a getNetWorth
\* dispatch for an authenticated u issues exactly one remote call, carrying
\* u's stored credential; and its result is the provider's payload, unchanged.
C19_HappyPath ==
    [][/\ last'.op = "complete" =>
            \A u \in Users, p \in Passcodes :
                (SixDigits(p) /\ PendingInWindow(u) /\ completeAuthentication(u, p))
                => (/\ last'.res = "issued"
                    /\ inflight' = inflight \cup {Call("complete", u, PendingId(u))})
       /\ last'.op = "complete" =>
            \A c \in inflight :
                (/\ HasPending(c.user)
                 /\ PendingId(c.user) = c.ref
                 /\ CompleteResponse(c, "ok"))
                => (last'.res = "ok" /\ (Authenticated(c.user))')
       /\ last'.op = "data" =>
            \A u \in Users :
                (Authenticated(u) /\ executeFunctionCall(u, "getNetWorth", << >>))
                => (/\ last'.res = "issued"
                    /\ inflight' = inflight \cup {Call("data", u, Credential(u))})
       /\ last'.op = "data" =>
            \A c \in inflight, payload \in Payloads :
                DataAnswer(c, "ok", payload)
                => (last' = [Step("data", c.user, "ok") EXCEPT !.report = payload]
                    /\ StoreUnchanged)]_vars

C19_Witness ==
    /\ last.op = "data"
    /\ last.res = "ok"
    /\ last.report = "netWorthB"
    /\ Authenticated("u1")
\* C20 (as claimed): whenever a complete of u returns success, the record it
\* was started on is still u's stored pending record at that instant (neither
\* deleted nor replaced by a sweep, an initiate or a disconnect while the
\* verification was in flight), and after the step u is authenticated under
\* the sessionId the complete reports.
C20_CompleteSucceedsOnlyOnStoredRecord ==
    [][\A c \in inflight :
          CompleteResponse(c, "ok")
          => (/\ HasPending(c.user)
              /\ PendingId(c.user) = c.ref
              /\ (Authenticated(c.user))'
              /\ (Credential(c.user))' = c.ref)]_vars

\* The pending record complete call c was started on has been authenticated
\* already (by another complete, started on the same record).
AlreadyCompleted(c) ==
    /\ c.op = "complete"
    /\ IF service = "userSessions"
       THEN \E e \in userSessions :
               e.key = c.user /\ e.val.sessionId = c.ref /\ e.val.status = "authenticated"
       ELSE \E e \in userTokens : e.key = c.user /\ e.val.token = c.ref

\* C21 (as claimed): of two overlapping completes of u started on the same
\* pending record only one succeeds: when the provider accepts the second
\* after the first has authenticated the record, the second fails with
\* no-pending-session and the record (its authenticatedAt) stays as set.
C21_OneCompletePerPendingSession ==
    [][\A c \in inflight :
          (AlreadyCompleted(c) /\ CompleteResponse(c, "ok"))
          => (last'.res = "NoPendingSession" /\ StoreUnchanged)]_vars

\* C22 (as claimed): the periodic sweep deletes a record only when the
\* window of the record's current status has elapsed; in particular it never
\* deletes an authenticated record that isAuthenticated still accepts.
C22_SweepDeletesOnlyExpired ==
    [][(cleanupExpiredSessions \/ cleanupExpiredTokens)
          => \A e \in (userSessions \cup userTokens) \ (userSessions' \cup userTokens') :
                 WindowElapsed(e)]_vars

\* C23 (as claimed): in the userTokens version an unauthorized answer to a
\* data call removes only the session whose token the call carried: when u
\* holds another token by then (u authenticated again while the call was in
\* flight), the answer leaves the store as it is.
C23_UnauthorizedRemovesOnlyItsSession ==
    [][\A c \in inflight :
          (/\ service = "userTokens"
           /\ MapHas(userTokens, c.user)
           /\ MapGet(userTokens, c.user).token # c.ref
           /\ DataResponse(c, "unauthorized"))
          => StoreUnchanged]_vars

\* The step just taken stored the record of an initiate of u that was issued
\* after initiate call c, which is still awaiting its answer: the promise
\* that resolved was not the oldest pending one, and c is.
IssuedBeforeStoredRecord(c) ==
    /\ service = "userTokens"
    /\ c.op = "initiate"
    /\ c.n = 1
    /\ last.op = "initiate"
    /\ last.res = "ok"
    /\ last.user = c.user
    /\ last.report[1] > 1

\* C24 (as claimed): when two initiates of u overlap, the record of the one
\* issued second is the one left in the store: the answer to the initiate
\* issued first, arriving after the second's record was stored, does not
\* replace that record.
C24_SecondInitiateWins ==
    [][\A c \in inflight :
          (IssuedBeforeStoredRecord(c) /\ InitiateResponse(c, "ok"))
          => StoreUnchanged]_vars

\* C25 (as claimed): a complete of u whose remote verification is rejected,
\* errors or times out fails and leaves every record of u, the pending one
\* included, as it was, so that complete can be tried again.
C25_FailedCompleteKeepsPending ==
    [][\A c \in inflight : \A outcome \in RemoteOutcomes \ {"ok"} :
          CompleteResponse(c, outcome)
          => (last'.res = "RemoteError" /\ StoreUnchanged)]_vars

\* C26 (as claimed): isAuthenticated(u) deletes every record of u whose
\* window has elapsed, pending or authenticated, and then returns false; with
\* no such record it leaves the store unchanged.
C26_IsAuthenticatedEvictsExpired ==
    [][\A u \in Users :
          RouteStatus(u)
          => IF \E e \in RecordsOf(u) : WindowElapsed(e)
             THEN /\ last'.res = "false"
                  /\ \A e \in RecordsOf(u) :
                         WindowElapsed(e) => e \notin (userSessions' \cup userTokens')
             ELSE StoreUnchanged]_vars

\* The data methods of the loaded version.
DataMethods ==
    IF service = "userSessions" THEN SessionsDataMethods ELSE TokensDataMethods

\* C27: a data operation of u started while isAuthenticated(u) holds finds
\* u's record in the same turn: it issues its remote call with the stored
\* credential, never without one, and leaves the store as it is.
C27_CheckAndReadInOneTurn ==
    [][last'.op = "data" =>
          \A u \in Users :
              Authenticated(u) =>
                  \A name \in DataMethods :
                      dataMethod(u, name)
                      => (/\ last'.res = "issued"
                          /\ Credential(u) # NoId
                          /\ \E c \in inflight' \ inflight :
                                 /\ c.op \in {"data", "portfolio"}
                                 /\ c.user = u
                                 /\ c.ref = Credential(u)
                          /\ \A c \in inflight' : c.ref = NoId => c \in inflight
                          /\ StoreUnchanged)]_vars

\* A data call went out at the last instant of the authenticated window.
C27_Witness ==
    /\ last = Step("data", "u1", "issued")
    /\ Authenticated("u1")
    /\ now = ValidUntil("u1")
    /\ \E c \in inflight : c.op = "data" /\ c.ref = Credential("u1")

\* C28 (as claimed): the response to a request of user u carries no session
\* data of another user: the answer of the query-data endpoint holds records
\* of u only.
C28_NoForeignSessionData ==
    (last.op = "query" /\ last.res = "ok")
    => \A e \in last.report.sessionData \cup last.report.allSessions : e.key = last.user

\* The map entries stored under the identifier of user v.
EntriesOf(v) == {e \in userSessions \cup userTokens : e.key = v}

\* C30 (as claimed): a request of user u, or the provider's answer to a call
\* made for u, leaves the record stored under any other user's identifier as
\* it was.
C30_OtherUsersUntouched ==
    [][\A u \in Tenants :
          (last'.user = u /\ last'.op # "cleanup")
          => \A v \in Tenants \ {u} : (EntriesOf(v))' = EntriesOf(v)]_vars

\* The sessions the store holds, by identifier: the sessionId of a record of
\* either version, and in the userTokens version the token the provider
\* issued for a completed session.
StoredSessionIds ==
    ({e.val.sessionId : e \in userSessions \cup userTokens}
        \cup {e.val.token : e \in userTokens}) \ {NoId}

\* The sessions stored with the given status; a token entry of the userTokens
\* version is an authenticated session.
SessionIdsWithStatus(st) ==
    ({e.val.sessionId : e \in {r \in userSessions \cup userTokens : r.val.status = st}}
        \cup (IF st = "authenticated" THEN {e.val.token : e \in userTokens} ELSE {}))
    \ {NoId}

\* C29 (as claimed): no step turns an authenticated session into a pending
\* one, and a session the store no longer holds (a pending call still
\* carries its identifier) is not in the store after any step.
C29_StatusMonotonic ==
    [][/\ SessionIdsWithStatus("authenticated") \cap (SessionIdsWithStatus("pending"))' = {}
       /\ \A c \in inflight :
             (c.ref # NoId /\ c.ref \notin StoredSessionIds)
             => c.ref \notin StoredSessionIds']_vars

====
